---- MODULE Spec2Model ----
(***************************************************************************)
(* Model of the snap integration-test helpers: the port prober             *)
(* (utils/net.go), the log poller (utils/log.go) and the two startup       *)
(* hooks that read the environment overrides.                              *)
(***************************************************************************)
EXTENDS Integers, Sequences, FiniteSets, TLC

\* ------------------------------------------------------------------ bounds
\* longest port list handed to a probe, and size of the port universe
MaxPorts == 2
\* largest maxRetry handed to WaitServiceOnline by a direct caller
MaxRetryBound == 3

\* ------------------------------------------------------- program constants
\* testOpenPorts / testBindLoopback: WaitServiceOnline(t, 60, ports...)
BindMaxRetry == 60
\* WaitForLogMessage: const maxRetry = 10
LogMaxRetry == 10

\* ----------------------------------------------------------------- helpers
Range(s) == {s[k] : k \in 1..Len(s)}

NoDup(s) == \A a, b \in 1..Len(s) : a # b => s[a] # s[b]

\* the port identifiers under test, as the strings the callers pass
AllPorts == <<"80", "8080", "5550">>

PortUniverse == {AllPorts[k] : k \in 1..MaxPorts}

\* ordered lists of distinct port identifiers ("port set"), the empty one included
PortLists == {s \in UNION {[1..n -> PortUniverse] : n \in 0..MaxPorts} : NoDup(s)}

\* the characters of a port identifier
PortChars(p) ==
    CASE p = "80" -> <<"8", "0">>
      [] p = "8080" -> <<"8", "0", "8", "0">>
      [] p = "5550" -> <<"5", "5", "5", "0">>

VARIABLES
    op,              \* the entry point under execution
    pc,              \* position inside it
    result,          \* "running", then how the entry point ended
    ports,           \* ports ...string
    maxRetry,        \* maxRetry int
    tNil,            \* t == nil
    i,               \* loop counter of the retry loops
    idx,             \* position of the range loops
    sleeps,          \* time.Sleep(1 * time.Second) calls so far
    online,          \* environment: every dial is accepted (service already up)
    closedPorts,     \* WaitServiceOnline: closedPorts
    closedPortsTemp, \* WaitServiceOnline: closedPortsTemp
    returnErr,       \* WaitServiceOnline: returnErr
    errPorts,        \* ports named by the reported timeout error
    openConns,       \* connections returned by DialTimeout and not closed
    dials,           \* history: <<port, round, accepted>> of every dial
    rounds,          \* history: rounds begun
    roundDials,      \* history: ports dialed in the current round, in order
    pendingAtStart,  \* history: closedPorts when the current round began
    listing,         \* environment: sockets lsof reports per port
    mustListen,      \* requireListenAllInterfaces: mustListen
    failed,          \* t.Failed() of the running (sub)test
    parentFailed,    \* a finished subtest of testBindLoopback failed
    reports,         \* <<port, message>> of every t.Errorf / t.Fatalf
    lsofCalls,       \* history: lsof invocations
    expectedLog,     \* WaitForLogMessage: expectedLog
    logs,            \* WaitForLogMessage: logs of the last read
    hits,            \* history: per read, whether logs contained expectedLog
    environ,         \* the process environment
    ServiceChannel, LocalServiceSnapPath, FullConfigTest, SkipTeardownRemoval,
    snapChannel, snapPath, teardown

ctlVars == <<op, pc, result, ports, maxRetry, tNil, i, idx, sleeps, online>>
wsoVars == <<closedPorts, closedPortsTemp, returnErr, errPorts, openConns,
             dials, rounds, roundDials, pendingAtStart>>
bindVars == <<listing, mustListen, failed, parentFailed, reports, lsofCalls>>
logVars == <<expectedLog, logs, hits>>
envVars == <<environ, ServiceChannel, LocalServiceSnapPath, FullConfigTest,
             SkipTeardownRemoval, snapChannel, snapPath, teardown>>
vars == <<ctlVars, wsoVars, bindVars, logVars, envVars>>

NoErr == "nil"
NoConn == "nil"

\* ------------------------------------------------------------ initial parts
WsoInit ==
    /\ closedPorts = <<>>
    /\ closedPortsTemp = <<>>
    /\ returnErr = NoErr
    /\ errPorts = {}
    /\ openConns = 0
    /\ dials = {}
    /\ rounds = 0
    /\ roundDials = <<>>
    /\ pendingAtStart = <<>>

BindIdle ==
    /\ listing = [p \in PortUniverse |-> {}]
    /\ mustListen = FALSE
    /\ failed = FALSE
    /\ parentFailed = FALSE
    /\ reports = {}
    /\ lsofCalls = 0

LogIdle ==
    /\ expectedLog = <<>>
    /\ logs = <<>>
    /\ hits = <<>>

Unset == "<unset>"

\* package utils: var ( ServiceChannel = "latest/edge" ... )
UtilsDefaults ==
    /\ ServiceChannel = "latest/edge"
    /\ LocalServiceSnapPath = ""
    /\ FullConfigTest = FALSE
    /\ SkipTeardownRemoval = FALSE

\* package env: var ( snapChannel = "latest/edge" ... )
PkgDefaults ==
    /\ snapChannel = "latest/edge"
    /\ snapPath = ""
    /\ teardown = TRUE

EnvDefaults == UtilsDefaults /\ PkgDefaults

EnvNames == {"SERVICE_CHANNEL", "LOCAL_SERVICE_SNAP", "FULL_CONFIG_TEST",
             "SKIP_TEARDOWN_REMOVAL", "SNAP_CHANNEL", "SNAP_PATH", "TEARDOWN"}

EnvIdle ==
    /\ environ = [k \in EnvNames |-> Unset]
    /\ EnvDefaults

\* ------------------------------------------------------ WaitServiceOnline
\* net.DialTimeout("tcp", ":"+port, dialTimeout): a connection or an error
DialTimeout(port, accepted) ==
    IF accepted THEN [conn |-> "conn", err |-> NoErr]
                ELSE [conn |-> NoConn, err |-> port]

\* for i := 1; i <= maxRetry; i++
LoopCondShort(k, n) == k < n

LoopCond(k, n) == k <= n

\* if conn == nil { closedPortsTemp = append(closedPortsTemp, port) }
StillClosedInverted(temp, port, conn) ==
    IF conn # NoConn THEN Append(temp, port) ELSE temp

StillClosed(temp, port, conn) ==
    IF conn = NoConn THEN Append(temp, port) ELSE temp

\* closedPorts = closedPortsTemp
NextPendingKept(pending, temp) == pending

NextPending(pending, temp) == temp

\* how control leaves WaitServiceOnline with outcome r
WsoReturn(r) ==
    IF op = "testBindLoopback" /\ r = "nil"
    THEN /\ pc' = "rla_entry"
         /\ result' = "running"
    ELSE /\ pc' = "done"
         /\ result' = r

WsoEntry ==
    /\ pc = "wso_entry"
    /\ closedPorts' = ports
    /\ returnErr' = NoErr
    /\ i' = 1
    /\ pc' = "wso_loop"
    /\ UNCHANGED <<op, result, ports, maxRetry, tNil, idx, sleeps, online>>
    /\ UNCHANGED <<closedPortsTemp, errPorts, openConns, dials, rounds,
                   roundDials, pendingAtStart>>
    /\ UNCHANGED <<bindVars, logVars, envVars>>

WsoRoundStart ==
    /\ pc = "wso_loop"
    /\ LoopCond(i, maxRetry)
    /\ closedPortsTemp' = <<>>
    /\ idx' = 1
    /\ rounds' = rounds + 1
    /\ roundDials' = <<>>
    /\ pendingAtStart' = closedPorts
    /\ pc' = "wso_dial"
    /\ UNCHANGED <<op, result, ports, maxRetry, tNil, i, sleeps, online>>
    /\ UNCHANGED <<closedPorts, returnErr, errPorts, openConns, dials>>
    /\ UNCHANGED <<bindVars, logVars, envVars>>

WsoDial ==
    /\ pc = "wso_dial"
    /\ idx <= Len(closedPorts)
    /\ \E accepted \in (IF online THEN {TRUE} ELSE BOOLEAN) :
         LET port == closedPorts[idx]
             d == DialTimeout(port, accepted)
         IN /\ closedPortsTemp' = StillClosed(closedPortsTemp, port, d.conn)
            /\ returnErr' = d.err
            /\ openConns' = IF d.conn # NoConn THEN openConns + 1 ELSE openConns
            /\ dials' = dials \cup {<<port, i, accepted>>}
            /\ roundDials' = Append(roundDials, port)
    /\ idx' = idx + 1
    /\ UNCHANGED <<op, pc, result, ports, maxRetry, tNil, i, sleeps, online>>
    /\ UNCHANGED <<closedPorts, errPorts, rounds, pendingAtStart>>
    /\ UNCHANGED <<bindVars, logVars, envVars>>

WsoEndRound ==
    /\ pc = "wso_dial"
    /\ idx > Len(closedPorts)
    /\ closedPorts' = NextPending(closedPorts, closedPortsTemp)
    /\ IF Len(closedPorts') = 0
       THEN /\ WsoReturn("nil")
            /\ UNCHANGED <<i, sleeps>>
       ELSE /\ sleeps' = sleeps + 1
            /\ i' = i + 1
            /\ pc' = "wso_loop"
            /\ UNCHANGED result
    /\ UNCHANGED <<op, ports, maxRetry, tNil, idx, online>>
    /\ UNCHANGED <<closedPortsTemp, returnErr, errPorts, openConns, dials,
                   rounds, roundDials, pendingAtStart>>
    /\ UNCHANGED <<bindVars, logVars, envVars>>

\* the error text carries returnErr, the error of the last dial made
WsoTimeout ==
    /\ pc = "wso_loop"
    /\ ~LoopCond(i, maxRetry)
    /\ errPorts' = IF returnErr # NoErr THEN {returnErr} ELSE {}
    /\ WsoReturn(IF tNil THEN "error" ELSE "fatal")
    /\ UNCHANGED <<op, ports, maxRetry, tNil, i, idx, sleeps, online>>
    /\ UNCHANGED <<closedPorts, closedPortsTemp, returnErr, openConns, dials,
                   rounds, roundDials, pendingAtStart>>
    /\ UNCHANGED <<bindVars, logVars, envVars>>

\* --------------------------------------------------------- requirePortOpen
RpoEntry ==
    /\ pc = "rpo_entry"
    /\ IF Len(ports) = 0
       THEN /\ pc' = "done"
            /\ result' = "panic"
            /\ UNCHANGED idx
       ELSE /\ pc' = "rpo_loop"
            /\ idx' = 1
            /\ UNCHANGED result
    /\ UNCHANGED <<op, ports, maxRetry, tNil, i, sleeps, online>>
    /\ UNCHANGED <<wsoVars, bindVars, logVars, envVars>>

\* err != nil: conn.Close() on the nil conn panics; otherwise the
\* connection is logged and closed
RpoDial ==
    /\ pc = "rpo_loop"
    /\ idx <= Len(ports)
    /\ \E accepted \in BOOLEAN :
         LET port == ports[idx]
             d == DialTimeout(port, accepted)
         IN /\ dials' = dials \cup {<<port, 1, accepted>>}
            /\ IF d.err # NoErr
               THEN /\ pc' = "done"
                    /\ result' = "panic"
                    /\ UNCHANGED idx
               ELSE /\ idx' = idx + 1
                    /\ UNCHANGED <<pc, result>>
    /\ UNCHANGED openConns
    /\ UNCHANGED <<op, ports, maxRetry, tNil, i, sleeps, online>>
    /\ UNCHANGED <<closedPorts, closedPortsTemp, returnErr, errPorts, rounds,
                   roundDials, pendingAtStart>>
    /\ UNCHANGED <<bindVars, logVars, envVars>>

RpoFinish ==
    /\ pc = "rpo_loop"
    /\ idx > Len(ports)
    /\ pc' = "done"
    /\ result' = IF failed THEN "fail" ELSE "pass"
    /\ UNCHANGED <<op, ports, maxRetry, tNil, i, idx, sleeps, online>>
    /\ UNCHANGED <<wsoVars, bindVars, logVars, envVars>>

\* WaitServiceOnline or requirePortOpen called directly, with any port list,
\* any retry budget and either kind of test handle
InitWait ==
    /\ op \in {"WaitServiceOnline", "requirePortOpen"}
    /\ pc = (IF op = "WaitServiceOnline" THEN "wso_entry" ELSE "rpo_entry")
    /\ result = "running"
    /\ ports \in PortLists
    /\ maxRetry \in (IF op = "WaitServiceOnline" THEN 0..MaxRetryBound ELSE {0})
    /\ tNil \in (IF op = "WaitServiceOnline" THEN BOOLEAN ELSE {FALSE})
    /\ i = 0
    /\ idx = 0
    /\ sleeps = 0
    /\ online = FALSE
    /\ WsoInit
    /\ BindIdle
    /\ LogIdle
    /\ EnvIdle

NextWait ==
    \/ WsoEntry
    \/ WsoRoundStart
    \/ WsoDial
    \/ WsoEndRound
    \/ WsoTimeout
    \/ RpoEntry
    \/ RpoDial
    \/ RpoFinish

SpecWait == InitWait /\ [][NextWait]_vars

\* ------------------------------------------------------------- strings
\* strings.Contains(s, substr)
Contains(s, substr) ==
    \E k \in 0..(Len(s) - Len(substr)) : SubSeq(s, k + 1, k + Len(substr)) = substr

LoopbackAddr == <<"1", "2", "7", ".", "0", ".", "0", ".", "1">>
WildcardAddr == <<"*">>
ListenState == <<" ", "(", "L", "I", "S", "T", "E", "N", ")">>
EstablishedState == <<" ", "(", "E", "S", "T", "A", "B", "L", "I", "S", "H", "E", "D", ")">>
PeerName == <<"-", ">", "1", "2", "7", ".", "0", ".", "0", ".", "1", ":", "4", "1">>

\* the sockets lsof may report for one port: listening on every interface,
\* listening on the loopback, an established loopback connection
EntryKinds == {"listen_all", "listen_lo", "estab_lo"}

EntryOrder == <<"listen_all", "listen_lo", "estab_lo">>

\* one line of "lsof -nPi :<port>": type and NAME column
LsofLine(kind, port) ==
    <<"T", "C", "P", " ">> \o
    (CASE kind = "listen_all" -> WildcardAddr \o <<":">> \o PortChars(port) \o ListenState
       [] kind = "listen_lo" -> LoopbackAddr \o <<":">> \o PortChars(port) \o ListenState
       [] kind = "estab_lo" -> LoopbackAddr \o <<":">> \o PortChars(port) \o PeerName
                               \o EstablishedState)
    \o <<"\n">>

RECURSIVE LsofLines(_, _, _)
LsofLines(sockets, port, k) ==
    IF k > Len(EntryOrder) THEN <<>>
    ELSE (IF EntryOrder[k] \in sockets THEN LsofLine(EntryOrder[k], port) ELSE <<>>)
         \o LsofLines(sockets, port, k + 1)

\* stdout of "sudo lsof -nPi :<port> || true": empty when nothing is listed
lsof(port) ==
    IF listing[port] = {} THEN <<>>
    ELSE <<"N", "A", "M", "E", "\n">> \o LsofLines(listing[port], port, 1)

\* filterOpenPorts: t.Fatalf on empty output, else the output
filterOpenPortsLenient(stdout) == [fatal |-> FALSE, list |-> stdout]

filterOpenPorts(stdout) == [fatal |-> stdout = <<>>, list |-> stdout]

\* fmt.Sprintf("%s:%s (LISTEN)", addr, port)
SprintfNoState(addr, port) == addr \o <<":">> \o PortChars(port)

Sprintf(addr, port) == addr \o <<":">> \o PortChars(port) \o ListenState

\* isListenInterface: fatal when the port is not open, else whether the
\* listing contains the token
isListenInterface(addr, port) ==
    LET f == filterOpenPorts(lsof(port))
    IN [fatal |-> f.fatal,
        listening |-> ~f.fatal /\ Contains(f.list, Sprintf(addr, port))]

\* ------------------------------------------------------- binding checks
\* the running (sub)test ends, failed or not
SubtestEnd(f) ==
    IF op = "testBindLoopback" /\ pc \in {"rla_entry", "rla_loop"}
    THEN /\ pc' = "rll_entry"
         /\ parentFailed' = f
         /\ failed' = FALSE
         /\ UNCHANGED result
    ELSE /\ pc' = "done"
         /\ result' = IF f \/ parentFailed THEN "fail" ELSE "pass"
         /\ failed' = f
         /\ UNCHANGED parentFailed

\* if len(ports) == 0 { panic("No ports given as input") }
ProbeEntry(entry, loop) ==
    /\ pc = entry
    /\ IF Len(ports) = 0
       THEN /\ pc' = "done"
            /\ result' = "panic"
            /\ UNCHANGED idx
       ELSE /\ pc' = loop
            /\ idx' = 1
            /\ UNCHANGED result
    /\ UNCHANGED <<op, ports, maxRetry, tNil, i, sleeps, online>>
    /\ UNCHANGED <<wsoVars, bindVars, logVars, envVars>>

RlaEntry == ProbeEntry("rla_entry", "rla_loop")

\* one iteration of the range loop of requireListenAllInterfaces
RlaCheck ==
    /\ pc = "rla_loop"
    /\ idx <= Len(ports)
    /\ LET port == ports[idx]
           r == isListenInterface(WildcardAddr, port)
       IN /\ lsofCalls' = lsofCalls + 1
          /\ IF r.fatal
             THEN /\ reports' = reports \cup {<<port, "not open">>}
                  /\ SubtestEnd(TRUE)
                  /\ UNCHANGED idx
             ELSE /\ reports' =
                        IF mustListen /\ ~r.listening
                        THEN reports \cup {<<port, "not listening to all interfaces">>}
                        ELSE IF ~mustListen /\ r.listening
                        THEN reports \cup {<<port, "is listening to all interfaces">>}
                        ELSE reports
                  /\ failed' = (failed \/ (mustListen /\ ~r.listening)
                                       \/ (~mustListen /\ r.listening))
                  /\ idx' = idx + 1
                  /\ UNCHANGED <<pc, result, parentFailed>>
    /\ UNCHANGED <<op, ports, maxRetry, tNil, i, sleeps, online>>
    /\ UNCHANGED <<listing, mustListen>>
    /\ UNCHANGED <<wsoVars, logVars, envVars>>

\* if t.Failed() { t.FailNow() }
RlaFinish ==
    /\ pc = "rla_loop"
    /\ idx > Len(ports)
    /\ SubtestEnd(failed)
    /\ UNCHANGED <<op, ports, maxRetry, tNil, i, idx, sleeps, online>>
    /\ UNCHANGED <<listing, mustListen, reports, lsofCalls>>
    /\ UNCHANGED <<wsoVars, logVars, envVars>>

RllEntry == ProbeEntry("rll_entry", "rll_loop")

\* one iteration of the range loop of requireListenLoopback
RllCheck ==
    /\ pc = "rll_loop"
    /\ idx <= Len(ports)
    /\ LET port == ports[idx]
           r == isListenInterface(LoopbackAddr, port)
       IN /\ lsofCalls' = lsofCalls + 1
          /\ IF r.fatal
             THEN /\ reports' = reports \cup {<<port, "not open">>}
                  /\ SubtestEnd(TRUE)
                  /\ UNCHANGED idx
             ELSE /\ reports' =
                        IF ~r.listening
                        THEN reports \cup {<<port, "not restricted to loopback">>}
                        ELSE reports
                  /\ failed' = (failed \/ ~r.listening)
                  /\ idx' = idx + 1
                  /\ UNCHANGED <<pc, result, parentFailed>>
    /\ UNCHANGED <<op, ports, maxRetry, tNil, i, sleeps, online>>
    /\ UNCHANGED <<listing, mustListen>>
    /\ UNCHANGED <<wsoVars, logVars, envVars>>

RllFinish ==
    /\ pc = "rll_loop"
    /\ idx > Len(ports)
    /\ SubtestEnd(failed)
    /\ UNCHANGED <<op, ports, maxRetry, tNil, i, idx, sleeps, online>>
    /\ UNCHANGED <<listing, mustListen, reports, lsofCalls>>
    /\ UNCHANGED <<wsoVars, logVars, envVars>>

\* testBindLoopback on a non-empty list of ports that are already online
\* (TestNet calls it only when len(conf.TestBindLoopback) > 0), or one of
\* the two binding probes called directly; lsof may report any sockets
InitBind ==
    /\ op \in {"testBindLoopback", "requireListenAllInterfaces",
               "requireListenLoopback"}
    /\ pc = (CASE op = "testBindLoopback" -> "wso_entry"
               [] op = "requireListenAllInterfaces" -> "rla_entry"
               [] op = "requireListenLoopback" -> "rll_entry")
    /\ result = "running"
    /\ ports \in PortLists
    /\ op = "testBindLoopback" => Len(ports) > 0
    /\ maxRetry = (IF op = "testBindLoopback" THEN BindMaxRetry ELSE 0)
    /\ tNil = FALSE
    /\ i = 0
    /\ idx = 0
    /\ sleeps = 0
    /\ online = TRUE
    /\ WsoInit
    /\ \E g \in [Range(ports) -> SUBSET EntryKinds] :
         listing = [p \in PortUniverse |-> IF p \in Range(ports) THEN g[p] ELSE {}]
    /\ mustListen \in (IF op = "requireListenAllInterfaces" THEN BOOLEAN ELSE {FALSE})
    /\ failed = FALSE
    /\ parentFailed = FALSE
    /\ reports = {}
    /\ lsofCalls = 0
    /\ LogIdle
    /\ EnvIdle

NextBind ==
    \/ WsoEntry
    \/ WsoRoundStart
    \/ WsoDial
    \/ WsoEndRound
    \/ RlaEntry
    \/ RlaCheck
    \/ RlaFinish
    \/ RllEntry
    \/ RllCheck
    \/ RllFinish

SpecBind == InitBind /\ [][NextBind]_vars

\* ------------------------------------------------------ WaitForLogMessage
\* log texts: every string over LogAlphabet up to MaxLogLen characters
MaxLogLen == 3

LogAlphabet == {"o", "k"}

LogTexts == UNION {[1..n -> LogAlphabet] : n \in 0..MaxLogLen}

\* for i := 1; i <= maxRetry; i++, const maxRetry = 10
LogLoopCondShort(k) == k < LogMaxRetry

LogLoopCond(k) == k <= LogMaxRetry

\* time.Sleep(1 * time.Second) at the head of an iteration
LogSleep ==
    /\ pc = "log_loop"
    /\ LogLoopCond(i)
    /\ sleeps' = sleeps + 1
    /\ pc' = "log_read"
    /\ UNCHANGED <<op, result, ports, maxRetry, tNil, i, idx, online>>
    /\ UNCHANGED <<wsoVars, bindVars, logVars, envVars>>

\* logs := SnapLogs(t, since, snap); return when it contains expectedLog
LogRead ==
    /\ pc = "log_read"
    /\ \E text \in LogTexts :
         /\ logs' = text
         /\ hits' = Append(hits, Contains(text, expectedLog))
         /\ IF Contains(text, expectedLog)
            THEN /\ pc' = "done"
                 /\ result' = "pass"
                 /\ UNCHANGED i
            ELSE /\ pc' = "log_loop"
                 /\ i' = i + 1
                 /\ UNCHANGED result
    /\ UNCHANGED <<op, ports, maxRetry, tNil, idx, sleeps, online>>
    /\ UNCHANGED expectedLog
    /\ UNCHANGED <<wsoVars, bindVars, envVars>>

\* t.Fatalf("Time out: reached max %d retries.", maxRetry)
LogTimeout ==
    /\ pc = "log_loop"
    /\ ~LogLoopCond(i)
    /\ pc' = "done"
    /\ result' = "fatal"
    /\ UNCHANGED <<op, ports, maxRetry, tNil, i, idx, sleeps, online>>
    /\ UNCHANGED <<wsoVars, bindVars, logVars, envVars>>

InitLog ==
    /\ op = "WaitForLogMessage"
    /\ pc = "log_loop"
    /\ result = "running"
    /\ ports = <<>>
    /\ maxRetry = LogMaxRetry
    /\ tNil = FALSE
    /\ i = 1
    /\ idx = 0
    /\ sleeps = 0
    /\ online = FALSE
    /\ WsoInit
    /\ BindIdle
    /\ expectedLog \in LogTexts
    /\ logs = <<>>
    /\ hits = <<>>
    /\ EnvIdle

NextLog ==
    \/ LogSleep
    \/ LogRead
    \/ LogTimeout

SpecLog == InitLog /\ [][NextLog]_vars

\* ------------------------------------------------- environment overrides
\* os.Getenv: the value, or "" when the variable is not set
Getenv(k) == IF environ[k] = Unset THEN "" ELSE environ[k]

TrueStrings == {"1", "t", "T", "TRUE", "true", "True"}
FalseStrings == {"0", "f", "F", "FALSE", "false", "False"}

\* strconv.ParseBool
ParseBool(v) == [val |-> v \in TrueStrings, err |-> v \notin TrueStrings \cup FalseStrings]

\* if v := os.Getenv(name); v != "" { setting = v }
OverrideString(v, cur) == IF v # "" THEN v ELSE cur

\* if v := os.Getenv(name); v != "" { setting, err = strconv.ParseBool(v);
\*    if err != nil { panic(err) } }
OverrideBoolFallback(v, cur) ==
    IF v # "" /\ ~ParseBool(v).err
    THEN [val |-> ParseBool(v).val, panic |-> FALSE]
    ELSE [val |-> cur, panic |-> FALSE]

OverrideBool(v, cur) ==
    IF v # ""
    THEN [val |-> ParseBool(v).val, panic |-> ParseBool(v).err]
    ELSE [val |-> cur, panic |-> FALSE]

\* control after a boolean override: panic ends the start-up
EnvStep(b, next) ==
    IF b.panic
    THEN /\ pc' = "done"
         /\ result' = "panic"
    ELSE /\ pc' = next
         /\ result' = IF next = "done" THEN "ok" ELSE result

InitChannel ==
    /\ pc = "init_channel"
    /\ ServiceChannel' = OverrideString(Getenv("SERVICE_CHANNEL"), ServiceChannel)
    /\ pc' = "init_path"
    /\ UNCHANGED <<op, result, ports, maxRetry, tNil, i, idx, sleeps, online>>
    /\ UNCHANGED <<environ, LocalServiceSnapPath, FullConfigTest,
                   SkipTeardownRemoval, snapChannel, snapPath, teardown>>
    /\ UNCHANGED <<wsoVars, bindVars, logVars>>

InitPath ==
    /\ pc = "init_path"
    /\ LocalServiceSnapPath' =
           OverrideString(Getenv("LOCAL_SERVICE_SNAP"), LocalServiceSnapPath)
    /\ pc' = "init_full"
    /\ UNCHANGED <<op, result, ports, maxRetry, tNil, i, idx, sleeps, online>>
    /\ UNCHANGED <<environ, ServiceChannel, FullConfigTest,
                   SkipTeardownRemoval, snapChannel, snapPath, teardown>>
    /\ UNCHANGED <<wsoVars, bindVars, logVars>>

InitFull ==
    /\ pc = "init_full"
    /\ LET b == OverrideBool(Getenv("FULL_CONFIG_TEST"), FullConfigTest)
       IN /\ FullConfigTest' = b.val
          /\ EnvStep(b, "init_skip")
    /\ UNCHANGED <<op, ports, maxRetry, tNil, i, idx, sleeps, online>>
    /\ UNCHANGED <<environ, ServiceChannel, LocalServiceSnapPath,
                   SkipTeardownRemoval, snapChannel, snapPath, teardown>>
    /\ UNCHANGED <<wsoVars, bindVars, logVars>>

InitSkip ==
    /\ pc = "init_skip"
    /\ LET b == OverrideBool(Getenv("SKIP_TEARDOWN_REMOVAL"), SkipTeardownRemoval)
       IN /\ SkipTeardownRemoval' = b.val
          /\ EnvStep(b, "done")
    /\ UNCHANGED <<op, ports, maxRetry, tNil, i, idx, sleeps, online>>
    /\ UNCHANGED <<environ, ServiceChannel, LocalServiceSnapPath,
                   FullConfigTest, snapChannel, snapPath, teardown>>
    /\ UNCHANGED <<wsoVars, bindVars, logVars>>

LoadChannel ==
    /\ pc = "load_channel"
    /\ snapChannel' = OverrideString(Getenv("SNAP_CHANNEL"), snapChannel)
    /\ pc' = "load_path"
    /\ UNCHANGED <<op, result, ports, maxRetry, tNil, i, idx, sleeps, online>>
    /\ UNCHANGED <<environ, ServiceChannel, LocalServiceSnapPath, FullConfigTest,
                   SkipTeardownRemoval, snapPath, teardown>>
    /\ UNCHANGED <<wsoVars, bindVars, logVars>>

LoadPath ==
    /\ pc = "load_path"
    /\ snapPath' = OverrideString(Getenv("SNAP_PATH"), snapPath)
    /\ pc' = "load_teardown"
    /\ UNCHANGED <<op, result, ports, maxRetry, tNil, i, idx, sleeps, online>>
    /\ UNCHANGED <<environ, ServiceChannel, LocalServiceSnapPath, FullConfigTest,
                   SkipTeardownRemoval, snapChannel, teardown>>
    /\ UNCHANGED <<wsoVars, bindVars, logVars>>

LoadTeardown ==
    /\ pc = "load_teardown"
    /\ LET b == OverrideBool(Getenv("TEARDOWN"), teardown)
       IN /\ teardown' = b.val
          /\ EnvStep(b, "done")
    /\ UNCHANGED <<op, ports, maxRetry, tNil, i, idx, sleeps, online>>
    /\ UNCHANGED <<environ, ServiceChannel, LocalServiceSnapPath, FullConfigTest,
                   SkipTeardownRemoval, snapChannel, snapPath>>
    /\ UNCHANGED <<wsoVars, bindVars, logVars>>

\* values an environment variable may hold: not set, empty, booleans in
\* several spellings, and text that is no boolean
EnvValues == {Unset, "", "true", "T", "0", "False", "yes", "latest/stable"}

UtilsEnvNames == {"SERVICE_CHANNEL", "LOCAL_SERVICE_SNAP", "FULL_CONFIG_TEST",
                  "SKIP_TEARDOWN_REMOVAL"}

PkgEnvNames == {"SNAP_CHANNEL", "SNAP_PATH", "TEARDOWN"}

\* process start: the init hook of package utils, or of package env, is
\* about to run under an arbitrary environment
InitEnv ==
    /\ op \in {"init", "loadEnvVars"}
    /\ pc = (IF op = "init" THEN "init_channel" ELSE "load_channel")
    /\ result = "running"
    /\ ports = <<>>
    /\ maxRetry = 0
    /\ tNil = FALSE
    /\ i = 0
    /\ idx = 0
    /\ sleeps = 0
    /\ online = FALSE
    /\ WsoInit
    /\ BindIdle
    /\ LogIdle
    /\ \E e \in [(IF op = "init" THEN UtilsEnvNames ELSE PkgEnvNames) -> EnvValues] :
         environ = [k \in EnvNames |-> IF k \in DOMAIN e THEN e[k] ELSE Unset]
    /\ EnvDefaults

NextEnv ==
    \/ InitChannel
    \/ InitPath
    \/ InitFull
    \/ InitSkip
    \/ LoadChannel
    \/ LoadPath
    \/ LoadTeardown

SpecEnv == InitEnv /\ [][NextEnv]_vars

\* ================================================================ claims
Finished(o) == op = o /\ pc = "done"

\* a dial to port p was accepted
Accepted(p) == \E d \in dials : d[1] = p /\ d[3]

\* the round of the first accepted dial to p
FirstAccept(p) ==
    CHOOSE r \in 1..rounds :
        /\ <<p, r, TRUE>> \in dials
        /\ \A q \in 1..(r - 1) : <<p, q, TRUE>> \notin dials

MaxOf(S) == CHOOSE m \in S : \A x \in S : x <= m

\* C1: for a non-empty port list and maxRetry >= 1, when every port accepts
\* a dial in some round r <= maxRetry, WaitServiceOnline returns nil, at the
\* end of the first round that leaves no port pending (the latest of the
\* ports' first accepting rounds), within maxRetry rounds and with one
\* 1-second sleep after every round but the last.
C1_AllOpenSucceeds ==
    ( /\ Finished("WaitServiceOnline")
      /\ Len(ports) > 0
      /\ maxRetry >= 1
      /\ \A p \in Range(ports) : \E r \in 1..maxRetry : <<p, r, TRUE>> \in dials )
    => /\ result = "nil"
       /\ rounds <= maxRetry
       /\ rounds = MaxOf({FirstAccept(p) : p \in Range(ports)})
       /\ sleeps = rounds - 1
       /\ closedPorts = <<>>

\* two ports that start accepting in different rounds
C1_Witness ==
    /\ Finished("WaitServiceOnline")
    /\ result = "nil"
    /\ Len(ports) = 2
    /\ rounds = 2
    /\ <<ports[1], 1, FALSE>> \in dials
    /\ <<ports[2], 1, TRUE>> \in dials
    /\ <<ports[1], 2, TRUE>> \in dials

\* C2: when some port of the list never accepts a dial, WaitServiceOnline
\* fails (t.Fatal with a test handle, a non-nil error without one) after
\* exactly maxRetry rounds in each of which that port was dialed; it never
\* returns nil while a port has not accepted, never fails before the budget
\* is used up, and never begins a round beyond maxRetry.
C2_ClosedPortFails ==
    op = "WaitServiceOnline" =>
      /\ rounds <= maxRetry
      /\ result = "nil" => \A p \in Range(ports) : Accepted(p)
      /\ result \in {"fatal", "error"} => rounds = maxRetry
      /\ ( pc = "done" /\ \E p \in Range(ports) : ~Accepted(p) ) =>
            /\ result = (IF tNil THEN "error" ELSE "fatal")
            /\ rounds = maxRetry
            /\ \A p \in Range(ports) :
                 ~Accepted(p) => \A r \in 1..maxRetry : <<p, r, FALSE>> \in dials

\* one port opens, the other never does, and the whole budget is spent
C2_Witness ==
    /\ Finished("WaitServiceOnline")
    /\ result = "fatal"
    /\ Len(ports) = 2
    /\ maxRetry >= 2
    /\ rounds = maxRetry
    /\ Accepted(ports[2])
    /\ ~Accepted(ports[1])

\* C3: the timeout error reported after the last round names exactly the
\* ports still pending.
C3_TimeoutNamesClosedPorts ==
    ( /\ Finished("WaitServiceOnline")
      /\ result \in {"fatal", "error"}
      /\ rounds >= 1 )
    => errPorts = Range(closedPorts)

\* C4: a probe called with an empty port list panics at once: no dial, no
\* listing, no sleep, and never a successful return.
C4_EmptyPortListAborts ==
    ( /\ op \in {"WaitServiceOnline", "requirePortOpen",
                 "requireListenAllInterfaces", "requireListenLoopback"}
      /\ pc = "done"
      /\ Len(ports) = 0 )
    => /\ result = "panic"
       /\ dials = {}
       /\ lsofCalls = 0
       /\ sleeps = 0

\* C9: when WaitServiceOnline or requirePortOpen has returned, no connection
\* opened by one of its dials is still open.
C9_ConnectionsClosed ==
    ( /\ op \in {"WaitServiceOnline", "requirePortOpen"}
      /\ pc = "done" )
    => openConns = 0

\* s is t with some elements left out, order kept
RECURSIVE IsSubSeq(_, _)
IsSubSeq(s, t) ==
    IF s = <<>> THEN TRUE
    ELSE IF t = <<>> THEN FALSE
    ELSE IF Head(s) = Head(t) THEN IsSubSeq(Tail(s), Tail(t))
    ELSE IsSubSeq(s, Tail(t))

\* C10: the pending list of WaitServiceOnline only shrinks: it is always an
\* order-preserving sub-list of the list the round began with and of the
\* input; a port leaves it in the round of its first accepted dial, is not
\* dialed in any later round and does not come back; and each round dials
\* exactly the ports pending at its start, once each, in list order.
C10_PendingOnlyShrinks ==
    ( op = "WaitServiceOnline" /\ pc # "wso_entry" ) =>
      /\ IsSubSeq(closedPorts, ports)
      /\ rounds >= 1 => IsSubSeq(closedPorts, pendingAtStart)
      /\ pc = "wso_dial" =>
           /\ roundDials = SubSeq(pendingAtStart, 1, idx - 1)
           /\ closedPorts = pendingAtStart
           /\ IsSubSeq(closedPortsTemp, roundDials)
      /\ pc \in {"wso_loop", "done"} /\ rounds >= 1 =>
           /\ roundDials = pendingAtStart
           /\ \A p \in Range(pendingAtStart) :
                p \in Range(closedPorts) <=> <<p, rounds, FALSE>> \in dials
      /\ \A d \in dials :
           /\ d[3] /\ (d[2] < rounds \/ pc \in {"wso_loop", "done"})
                => d[1] \notin Range(closedPorts)
           /\ d[3] => d[1] \notin Range(closedPortsTemp)
           /\ \A e \in dials : (e[1] = d[1] /\ d[3]) => e[2] <= d[2]

\* a port accepted in round 1 while another one is still dialed in round 3
C10_Witness ==
    /\ op = "WaitServiceOnline"
    /\ Len(ports) = 2
    /\ rounds = 3
    /\ <<ports[1], 1, TRUE>> \in dials
    /\ <<ports[2], 2, FALSE>> \in dials
    /\ <<ports[2], 3, TRUE>> \in dials
    /\ pc = "done"

\* C5: with the ports online, testBindLoopback (requireListenAllInterfaces
\* with mustListen=false, then requireListenLoopback) passes exactly when,
\* for every port of the list, lsof reports a socket listening on
\* 127.0.0.1:<port> and none listening on *:<port>.
C5_LoopbackOnly ==
    Finished("testBindLoopback") =>
      /\ result \in {"pass", "fail"}
      /\ result = "pass" <=>
           \A p \in Range(ports) :
               "listen_lo" \in listing[p] /\ "listen_all" \notin listing[p]

\* two loopback-only ports, one with an established connection listed too
C5_Witness ==
    /\ Finished("testBindLoopback")
    /\ result = "pass"
    /\ Len(ports) = 2
    /\ listing[ports[1]] = {"listen_lo", "estab_lo"}
    /\ listing[ports[2]] = {"listen_lo"}

\* position of the first port of the list whose listing is empty
FirstEmpty ==
    CHOOSE k \in 1..Len(ports) :
        /\ listing[ports[k]] = {}
        /\ \A j \in 1..(k - 1) : listing[ports[j]] # {}

\* C6: in the binding checks a port whose lsof output is empty is reported
\* "not open" and ends the check at once as a failure, whatever binding is
\* expected: the check never passes, nothing after that port is examined,
\* and "not open" is reported for no port with a non-empty listing.
C6_EmptyListingNotOpen ==
    /\ \A r \in reports : r[2] = "not open" => listing[r[1]] = {}
    /\ ( /\ op \in {"testBindLoopback", "requireListenAllInterfaces",
                    "requireListenLoopback"}
         /\ pc = "done"
         /\ \E p \in Range(ports) : listing[p] = {} )
       => /\ result = "fail"
          /\ <<ports[FirstEmpty], "not open">> \in reports
          /\ lsofCalls = FirstEmpty * (IF op = "testBindLoopback" THEN 2 ELSE 1)
          /\ \A r \in reports : \E j \in 1..FirstEmpty : r[1] = ports[j]

\* wildcard forbidden, first port correctly bound, second port not listed:
\* the only report is "not open"
C6_Witness ==
    /\ Finished("requireListenAllInterfaces")
    /\ ~mustListen
    /\ Len(ports) = 2
    /\ listing[ports[1]] = {"listen_lo"}
    /\ listing[ports[2]] = {}
    /\ result = "fail"
    /\ reports = {<<ports[2], "not open">>}

\* expectedLog occurs in logs
HasSubstring(text, sub) ==
    \E a \in 0..Len(text) : \E b \in a..Len(text) : SubSeq(text, a + 1, b) = sub

\* C7: WaitForLogMessage reads the logs at most 10 times, each read after a
\* 1-second sleep; it returns at the first read whose text contains the
\* expected substring and reads no more; when none of 10 reads contains it,
\* it fails fatally after exactly 10 reads.
C7_LogPolling ==
    op = "WaitForLogMessage" =>
      /\ Len(hits) <= 10
      /\ sleeps = Len(hits) + (IF pc = "log_read" THEN 1 ELSE 0)
      /\ \A k \in 1..Len(hits) :
           hits[k] => k = Len(hits) /\ pc = "done" /\ result = "pass"
      /\ pc = "done" => result \in {"pass", "fatal"}
      /\ pc = "done" /\ result = "pass" =>
           /\ Len(hits) \in 1..10
           /\ hits[Len(hits)]
           /\ HasSubstring(logs, expectedLog)
      /\ pc = "done" /\ result = "fatal" =>
           /\ Len(hits) = 10
           /\ \A k \in 1..10 : ~hits[k]
           /\ ~HasSubstring(logs, expectedLog)

\* the substring shows up only at the tenth read
C7_Witness ==
    /\ Finished("WaitForLogMessage")
    /\ result = "pass"
    /\ Len(hits) = 10
    /\ expectedLog = <<"o", "k">>
    /\ logs = <<"k", "o", "k">>

EnvSet(k) == environ[k] \notin {Unset, ""}

EnvBad(k) == EnvSet(k) /\ environ[k] \notin TrueStrings \cup FalseStrings

EnvString(k, default) == IF EnvSet(k) THEN environ[k] ELSE default

EnvBool(k, default) == IF EnvSet(k) THEN environ[k] \in TrueStrings ELSE default

\* C8: after start-up every setting holds the value of its environment
\* variable when that is set and non-empty (parsed as a boolean for the
\* toggles) and its default otherwise; start-up panics exactly when a
\* boolean variable holds a non-empty value that is no boolean.
C8_EnvOverrides ==
    /\ Finished("init") =>
         /\ result \in {"ok", "panic"}
         /\ result = "panic" <=>
              EnvBad("FULL_CONFIG_TEST") \/ EnvBad("SKIP_TEARDOWN_REMOVAL")
         /\ ServiceChannel = EnvString("SERVICE_CHANNEL", "latest/edge")
         /\ LocalServiceSnapPath = EnvString("LOCAL_SERVICE_SNAP", "")
         /\ result = "ok" =>
              /\ FullConfigTest = EnvBool("FULL_CONFIG_TEST", FALSE)
              /\ SkipTeardownRemoval = EnvBool("SKIP_TEARDOWN_REMOVAL", FALSE)
    /\ Finished("loadEnvVars") =>
         /\ result \in {"ok", "panic"}
         /\ result = "panic" <=> EnvBad("TEARDOWN")
         /\ snapChannel = EnvString("SNAP_CHANNEL", "latest/edge")
         /\ snapPath = EnvString("SNAP_PATH", "")
         /\ result = "ok" => teardown = EnvBool("TEARDOWN", TRUE)

\* an overridden channel, an empty path variable, a toggle spelled "T" and
\* an unset toggle
C8_Witness ==
    /\ Finished("init")
    /\ result = "ok"
    /\ environ["SERVICE_CHANNEL"] = "latest/stable"
    /\ environ["LOCAL_SERVICE_SNAP"] = ""
    /\ environ["FULL_CONFIG_TEST"] = "T"
    /\ environ["SKIP_TEARDOWN_REMOVAL"] = Unset
    /\ ServiceChannel = "latest/stable"
    /\ FullConfigTest

====
